---- MODULE Spec2Model ----
(***************************************************************************)
(* rss-router: the fetch cache (fetchURLContent), the request dispatcher   *)
(* (generateRSS) and the selector extraction (parseArticle, parseTime),    *)
(* modelled from the Go program embedded in src/go.mod (lines 107-348).    *)
(*                                                                         *)
(* Time is counted in minutes.  A []byte / string is a TLA+ string; an     *)
(* HTML page is kept in parsed form, as the sequence of its article nodes. *)
(* Every HTTP request runs on a goroutine (net/http); its pc is the step   *)
(* of the handler it is about to take.  A step ends at each access to the  *)
(* shared cache: taking a lock is one step with the lines up to the first  *)
(* access under it, and the last access under a lock is one step with the  *)
(* release and the lines after it, which touch only locals.  RLock is      *)
(* granted whenever no writer holds the lock (sync.RWMutex also makes new  *)
(* readers wait for a blocked writer: fewer interleavings, no new ones).   *)
(* goquery's HTML parsing and feeds' XML marshalling cannot fail on bytes  *)
(* in memory, so their error branches are not reached.                     *)
(***************************************************************************)
EXTENDS Integers, Sequences, FiniteSets, TLC

\* ------------------------------------------------------------- bounds
NumProcs == 2       \* goroutines serving requests concurrently (Spec)
MaxCalls == 2       \* requests served in one behaviour
MaxTime == 6        \* the clock runs from 0 to MaxTime minutes
MaxArticles == 2    \* article nodes in a page (SpecExtract)

\* ---------------------------------------------------------- constants
TTL == 5            \* cache.expiry[url] = time.Now().Add(5 * time.Minute)
StatusOK == 200
StatusNotFound == 404
StatusInternalServerError == 500

Procs == 1 .. NumProcs
None == 0           \* no goroutine / no call
ZeroTime == -1      \* time.Time{}: before every instant of the clock

\* ------------------------------------------------ strings (package strings)
HasPrefix(s, prefix) ==
  /\ Len(s) >= Len(prefix)
  /\ SubSeq(s, 1, Len(prefix)) = prefix

\* ------------------------------------------------------- configuration
\* config.yaml as the README gives it: site1 is scraped, site2 has a feed.
SiteConfig(url, title, format, existing) ==
  [URL |-> url, Title |-> title, Description |-> "RSS feed",
   DateFormat |-> format, LinkAttributeName |-> "href",
   ExistingRSSURL |-> existing]

config ==
  [site1 |-> SiteConfig("https://example.com", "Example Blog", "RFC3339", ""),
   site2 |-> SiteConfig("https://anotherblog.com", "Another Blog with RSS", "",
                        "https://anotherblog.com/feed.xml")]

SiteNames == {"site1", "site2", "nosuch"}   \* r.URL.Query().Get("site")
\* The URLs of the configuration, and the keys the cache maps are read at: a Go
\* map yields the zero value for any key.
URLs ==
  { config[s].URL : s \in DOMAIN config }
    \cup ({ config[s].ExistingRSSURL : s \in DOMAIN config } \ {""})
Keys == URLs \cup {""}

\* ------------------------------------------------ documents (goquery)
\* A fetched body: its bytes, and the article nodes goquery finds in it
\* (NewDocumentFromReader + Find(ArticleSelector)), in document order.
Bytes(raw, articles) == [raw |-> raw, articles |-> articles]
NilBytes == Bytes("", <<>>)   \* the zero value of a map[string][]byte lookup

\* A selection holds the first matched node, or is <<>> when nothing matched.
\* A matched element is the record of its attributes; goquery's Attr gives ""
\* (and exists = false, which parseArticle drops) for an empty selection or a
\* missing attribute, and Text and Html give "" for an empty selection.
Attr(sel, name) ==
  IF sel = <<>> THEN ""
  ELSE IF name \in DOMAIN sel[1] THEN sel[1][name] ELSE ""

Text(sel) == IF sel = <<>> THEN "" ELSE sel[1]

\* A child of the content node: text, an anchor or an image.
TextNode(v) == [tag |-> "text", v |-> v]
Anchor(href) == [tag |-> "a", v |-> href]
Image(src) == [tag |-> "img", v |-> src]

\* contentTag.Find("a"/"img").Each: a site-root-relative href/src is made
\* absolute by prefixing the site URL.
Absolutize(child, siteConfig) ==
  IF child.tag \in {"a", "img"} /\ HasPrefix(child.v, "/")
  THEN [child EXCEPT !.v = siteConfig.URL \o child.v]
  ELSE child

RenderChild(child) ==
  CASE child.tag = "text" -> child.v
    [] child.tag = "a" -> "<a href=\"" \o child.v \o "\"></a>"
    [] child.tag = "img" -> "<img src=\"" \o child.v \o "\"/>"

RECURSIVE RenderChildren(_)
RenderChildren(children) ==
  IF children = <<>> THEN ""
  ELSE RenderChild(Head(children)) \o RenderChildren(Tail(children))

\* contentTag.Html(): the inner markup of the first matched node.
Html(sel, siteConfig) ==
  IF sel = <<>> THEN ""
  ELSE RenderChildren([i \in 1 .. Len(sel[1]) |-> Absolutize(sel[1][i], siteConfig)])

\* ------------------------------------------------------ time.Parse
\* The date strings of the model and the instant each denotes under a layout.
\* The empty layout parses only the empty string (to the zero time).
TimeParse(layout, value) ==
  CASE layout = "RFC3339" /\ value = "2024-01-01T00:01:00Z" -> [err |-> FALSE, t |-> 1]
    [] layout = "RFC3339" /\ value = "2024-01-01T00:02:00Z" -> [err |-> FALSE, t |-> 2]
    [] layout = "" /\ value = "" -> [err |-> FALSE, t |-> ZeroTime]
    [] OTHER -> [err |-> TRUE, t |-> ZeroTime]

parseTimeKeepZero(dateStr, format, clock) == TimeParse(format, dateStr).t

parseTime(dateStr, format, clock) ==
  LET r == TimeParse(format, dateStr)
  IN  IF r.err THEN clock ELSE r.t

\* ------------------------------------------------------ parseArticle
NoDescription == "No description available"
Wrap(description) ==
  "<!-- HTML content start -->\n" \o description \o "\n<!-- HTML content end -->"

linkOfAlwaysPrefix(link, siteConfig) == siteConfig.URL \o link

linkOf(link, siteConfig) ==
  IF ~HasPrefix(link, "http") THEN siteConfig.URL \o link ELSE link

descriptionOfNoDefault(article, siteConfig) ==
  Wrap(Html(article.content, siteConfig))

descriptionOf(article, siteConfig) ==
  LET d == Html(article.content, siteConfig)
  IN  Wrap(IF d = "" THEN NoDescription ELSE d)

parseArticle(article, siteConfig, clock) ==
  LET link == linkOf(Attr(article.link, siteConfig.LinkAttributeName), siteConfig)
  IN  [Title |-> Text(article.title),
       Link |-> link,
       Description |-> descriptionOf(article, siteConfig),
       Created |-> parseTime(Attr(article.date, "datetime"), siteConfig.DateFormat, clock),
       Id |-> link]

\* articles.Each(func ... items = append(items, parseArticle(s, siteConfig)))
parseAll(articles, siteConfig, clock) ==
  [i \in 1 .. Len(articles) |-> parseArticle(articles[i], siteConfig, clock)]

\* ------------------------------------------------------ feeds.ToRss
TimeString(t) == IF t = ZeroTime THEN "" ELSE ToString(t)

RenderItem(item) ==
  "<item><title>" \o item.Title \o "</title><link>" \o item.Link
    \o "</link><description>" \o item.Description \o "</description><guid>"
    \o item.Id \o "</guid><pubDate>" \o TimeString(item.Created) \o "</pubDate></item>"

RECURSIVE RenderItems(_)
RenderItems(items) ==
  IF items = <<>> THEN ""
  ELSE RenderItem(Head(items)) \o RenderItems(Tail(items))

XmlHeader == "<?xml version=\"1.0\" encoding=\"UTF-8\"?>"

RssRoot(feed) ==
  "<rss><channel><title>" \o feed.Title \o "</title><link>" \o feed.Link
    \o "</link><description>" \o feed.Description \o "</description><pubDate>"
    \o TimeString(feed.Created) \o "</pubDate>" \o RenderItems(feed.Items)
    \o "</channel></rss>"

ToRss(feed) == XmlHeader \o RssRoot(feed)

\* strings.Replace(rss, "<rss", "<!-- ... -->\n<rss", 1) on the output of ToRss:
\* the first "<rss" is the root element, right after the XML header.
ReplaceRoot(feed) ==
  XmlHeader \o "<!-- Item descriptions contain HTML content -->\n" \o RssRoot(feed)

\* generateRSSFromScratch after its fetch: parse, extract, assemble, serialize,
\* and put the comment before the root element.
assemble(siteConfig, content, clock) ==
  LET feed == [Title |-> siteConfig.Title,
               Link |-> siteConfig.URL,
               Description |-> siteConfig.Description,
               Created |-> clock,
               Items |-> parseAll(content.articles, siteConfig, clock)]
  IN  ReplaceRoot(feed)

\* =====================================================================
\* The server: the cache, its lock, and one process per request.
\* =====================================================================
VARIABLES
  now,          \* time.Now(), in minutes
  content,      \* cache.content: url -> bytes (NilBytes: no key)
  expiry,       \* cache.expiry: url -> instant (ZeroTime: no key)
  readers,      \* goroutines holding cache.RLock
  writer,       \* the goroutine holding cache.Lock, or None
  pc,           \* per goroutine: the step of the request it is at
  site,         \* per goroutine: siteName of its request
  url,          \* per goroutine: the argument of fetchURLContent
  local,        \* per goroutine: fetchURLContent's variable content
  ret,          \* per goroutine: what fetchURLContent returned
  resp,         \* per goroutine: the HTTP response written
  call,         \* per goroutine: the number of its request (history)
  nextCall,     \* requests accepted so far (history)
  netCalls,     \* per goroutine: client.Get calls of its request (history)
  netDone,      \* client.Get calls completed, over all requests (history)
  doneAt,       \* per goroutine: netDone when its client.Get returned (history)
  locks,        \* per goroutine: lock acquisitions of its request (history)
  wrote,        \* per goroutine: its request stored into the cache (history)
  seen,         \* per goroutine: what it read from the cache, and whose writes (history)
  storedAt,     \* url -> instant of the last store (history)
  contentBy,    \* url -> call that wrote cache.content[url] (history)
  expiryBy,     \* url -> call that wrote cache.expiry[url] (history)
  lastLock,     \* url -> the bytes of the call that took cache.Lock last (history)
  doc,          \* SpecExtract: the article nodes of the page
  cfg,          \* SpecExtract: the site configuration
  items,        \* SpecExtract: generateRSSFromScratch's items
  rss           \* SpecExtract: generateRSSFromScratch's result

cacheVars == <<content, expiry>>
lockVars == <<readers, writer>>
histVars == <<storedAt, contentBy, expiryBy, lastLock>>
vars == <<now, content, expiry, readers, writer, pc, site, url, local, ret, resp,
          call, nextCall, netCalls, netDone, doneAt, locks, wrote, seen,
          storedAt, contentBy, expiryBy, lastLock, doc, cfg, items, rss>>
extractVars == <<doc, cfg, items, rss>>

\* What the upstream server may answer for a URL: the page or feed changes
\* between fetches.
Article(title, link, date, body) ==
  [title |-> title, link |-> link, date |-> date, content |-> body]

PageA ==
  Bytes("<html>A</html>",
        << Article(<<"First">>, <<[href |-> "/posts/1"]>>,
                   <<[datetime |-> "2024-01-01T00:01:00Z"]>>,
                   << <<TextNode("Hello "), Anchor("/about")>> >>),
           Article(<<"Second">>, <<[href |-> "https://other.com/x"]>>,
                   <<[datetime |-> "yesterday"]>>, <<>>) >>)
PageB ==
  Bytes("<html>B</html>",
        << Article(<<"Third">>, <<>>, <<>>, << <<>> >>) >>)
FeedA == Bytes("<rss>A</rss>", <<>>)
FeedB == Bytes("<rss>B &amp; \"b\"</rss>", <<>>)

Upstream(u) ==
  CASE u = "https://example.com" -> {PageA, PageB}
    [] u = "https://anotherblog.com/feed.xml" -> {FeedA, FeedB}
    [] u = "https://anotherblog.com" -> {PageB}
    [] OTHER -> {}

Bodies == UNION { Upstream(u) : u \in URLs }

NoResp == [status |-> 0, body |-> ""]
NoRet == [content |-> NilBytes, err |-> ""]
NoSeen == [age |-> "", expiry |-> None, content |-> None, bytes |-> NilBytes]

\* The age, at instant t, of an entry stored at instant s (history): no entry,
\* inside the TTL, exactly at its end, or past it.
Age(s, t) ==
  CASE s = ZeroTime -> "absent"
    [] s # ZeroTime /\ t < s + TTL -> "fresh"
    [] s # ZeroTime /\ t = s + TTL -> "due"
    [] OTHER -> "expired"

ServerInit ==
  /\ now = 0
  /\ content = [u \in Keys |-> NilBytes]
  /\ expiry = [u \in Keys |-> ZeroTime]
  /\ readers = {}
  /\ writer = None
  /\ pc = [p \in Procs |-> "idle"]
  /\ site = [p \in Procs |-> ""]
  /\ url = [p \in Procs |-> ""]
  /\ local = [p \in Procs |-> NilBytes]
  /\ ret = [p \in Procs |-> NoRet]
  /\ resp = [p \in Procs |-> NoResp]
  /\ call = [p \in Procs |-> None]
  /\ nextCall = 0
  /\ netCalls = [p \in Procs |-> 0]
  /\ netDone = 0
  /\ doneAt = [p \in Procs |-> 0]
  /\ locks = [p \in Procs |-> 0]
  /\ wrote = [p \in Procs |-> FALSE]
  /\ seen = [p \in Procs |-> NoSeen]
  /\ storedAt = [u \in Keys |-> ZeroTime]
  /\ contentBy = [u \in Keys |-> None]
  /\ expiryBy = [u \in Keys |-> None]
  /\ lastLock = [u \in Keys |-> NilBytes]

Init ==
  /\ ServerInit
  /\ doc = <<>>
  /\ cfg = config.site1
  /\ items = <<>>
  /\ rss = ""

\* ------------------------------------------------------ library calls
\* time.Time.Before
BeforeOrEqual(t, u) == t <= u

Before(t, u) == t < u

\* time.Now().Add(5 * time.Minute)
addNothing(t) == t

addTTL(t) == t + TTL

\* sync.RWMutex: RLock waits for the writer, Lock for the writer and the readers.
canRLock == writer = None

canLockAlways == TRUE

canLock == writer = None /\ readers = {}

\* http.Error(w, msg, code): the status and the plain-text message (net/http
\* ends the message with a newline).
HttpError(msg, code) == [status |-> code, body |-> msg]

\* w.Write([]byte(rss)) after a nil error: an implicit 200.
HttpOK(body) == [status |-> StatusOK, body |-> body]

\* The URL the request fetches: fetchExistingRSS(ExistingRSSURL) or
\* generateRSSFromScratch's fetchURLContent(siteConfig.URL).
usesExistingNever(siteConfig) == FALSE

usesExisting(siteConfig) == siteConfig.ExistingRSSURL # ""

targetURL(siteConfig) ==
  IF usesExisting(siteConfig) THEN siteConfig.ExistingRSSURL ELSE siteConfig.URL

\* config.Sites[siteName]: the comma-ok lookup.
siteKnownAlways(siteName) == TRUE

siteKnown(siteName) == siteName \in DOMAIN config

lookup(siteName) ==
  IF siteName \in DOMAIN config THEN config[siteName] ELSE SiteConfig("", "", "", "")

\* ------------------------------------------------------------ actions
\* generateRSS, lines 280-293, once fetchURLContent has returned r: the
\* passthrough (fetchExistingRSS: string(content)) or the scratch path.
respond(siteConfig, r, clock) ==
  IF r.err # "" THEN HttpError("Failed to generate RSS", StatusInternalServerError)
  ELSE IF usesExisting(siteConfig) THEN HttpOK(r.content.raw)
  ELSE HttpOK(assemble(siteConfig, r.content, clock))

\* fetchURLContent returns r to generateRSS, which writes the response.
Return(p, r) ==
  /\ ret' = [ret EXCEPT ![p] = r]
  /\ resp' = [resp EXCEPT ![p] = respond(lookup(site[p]), r, now)]
  /\ pc' = [pc EXCEPT ![p] = "responded"]

\* generateRSS, lines 267-284: the site lookup.  An unknown site is answered
\* at once; a known one enters fetchURLContent and takes the read lock
\* (line 175: cache.RLock()).
Request(p, s, limit) ==
  /\ pc[p] = "idle"
  /\ nextCall < limit
  /\ nextCall' = nextCall + 1
  /\ call' = [call EXCEPT ![p] = nextCall + 1]
  /\ site' = [site EXCEPT ![p] = s]
  /\ IF ~siteKnown(s)
     THEN /\ resp' = [resp EXCEPT ![p] =
                        HttpError("Site not found in configuration", StatusNotFound)]
          /\ pc' = [pc EXCEPT ![p] = "responded"]
          /\ UNCHANGED <<url, readers, locks>>
     ELSE /\ canRLock
          /\ url' = [url EXCEPT ![p] = targetURL(lookup(s))]
          /\ readers' = readers \cup {p}
          /\ locks' = [locks EXCEPT ![p] = @ + 1]
          /\ pc' = [pc EXCEPT ![p] = "check"]
          /\ resp' = resp
  /\ UNCHANGED <<extractVars, now, cacheVars, writer, histVars, local, ret, netCalls, netDone,
                 doneAt, wrote, seen>>

\* line 176: if time.Now().Before(cache.expiry[url]); on a miss lines 181-185:
\* cache.RUnlock() and client.Get(url) is issued, outside any lock.
Check(p) ==
  /\ pc[p] = "check"
  /\ seen' = [seen EXCEPT ![p].age = Age(storedAt[url[p]], now),
                           ![p].expiry = expiryBy[url[p]]]
  /\ IF Before(now, expiry[url[p]])
     THEN /\ pc' = [pc EXCEPT ![p] = "read"]
          /\ UNCHANGED <<readers, netCalls>>
     ELSE /\ readers' = readers \ {p}
          /\ netCalls' = [netCalls EXCEPT ![p] = @ + 1]
          /\ pc' = [pc EXCEPT ![p] = "Get"]
  /\ UNCHANGED <<extractVars, now, cacheVars, writer, histVars, site, url, local, ret, resp, call,
                 nextCall, netDone, doneAt, locks, wrote>>

\* lines 177-179: content := cache.content[url]; cache.RUnlock(); return content, nil
ReadHit(p) ==
  /\ pc[p] = "read"
  /\ local' = [local EXCEPT ![p] = content[url[p]]]
  /\ seen' = [seen EXCEPT ![p].content = contentBy[url[p]],
                           ![p].bytes = lastLock[url[p]]]
  /\ readers' = readers \ {p}
  /\ Return(p, [content |-> content[url[p]], err |-> ""])
  /\ UNCHANGED <<extractVars, now, cacheVars, writer, histVars, site, url, call, nextCall, netCalls,
                 netDone, doneAt, locks, wrote>>

\* lines 185-194: the request or the body read fails; the error is returned
GetFailEvict(p, e) ==
  /\ pc[p] = "Get"
  /\ content' = [content EXCEPT ![url[p]] = NilBytes]
  /\ expiry' = [expiry EXCEPT ![url[p]] = ZeroTime]
  /\ Return(p, [content |-> NilBytes, err |-> e])
  /\ UNCHANGED <<extractVars, now, lockVars, histVars, site, url, local, call,
                 nextCall, netCalls, netDone, doneAt, locks, wrote, seen>>

GetFail(p, e) ==
  /\ pc[p] = "Get"
  /\ Return(p, [content |-> NilBytes, err |-> e])
  /\ UNCHANGED <<extractVars, now, cacheVars, lockVars, histVars, site, url, local, call,
                 nextCall, netCalls, netDone, doneAt, locks, wrote, seen>>

\* lines 185-196: the response arrives and its body is read
GetOK(p, c) ==
  /\ pc[p] = "Get"
  /\ c \in Upstream(url[p])
  /\ local' = [local EXCEPT ![p] = c]
  /\ netDone' = netDone + 1
  /\ doneAt' = [doneAt EXCEPT ![p] = netDone + 1]
  /\ pc' = [pc EXCEPT ![p] = "Lock"]
  /\ UNCHANGED <<extractVars, now, cacheVars, lockVars, histVars, site, url, ret, resp, call,
                 nextCall, netCalls, locks, wrote, seen>>

\* line 199: the bytes stored are the bytes just fetched, whatever the entry holds
storedKeepFresh(p) ==
  IF Before(now, expiry[url[p]]) THEN content[url[p]] ELSE local[p]

stored(p) == local[p]

\* lines 198-199: cache.Lock(); cache.content[url] = content
LockWrite(p) ==
  /\ pc[p] = "Lock"
  /\ canLock
  /\ writer' = p
  /\ locks' = [locks EXCEPT ![p] = @ + 1]
  /\ lastLock' = [lastLock EXCEPT ![url[p]] = local[p]]
  /\ content' = [content EXCEPT ![url[p]] = stored(p)]
  /\ contentBy' = [contentBy EXCEPT ![url[p]] = call[p]]
  /\ wrote' = [wrote EXCEPT ![p] = TRUE]
  /\ pc' = [pc EXCEPT ![p] = "writeExpiry"]
  /\ UNCHANGED <<extractVars, now, expiry, readers, storedAt, expiryBy, site, url, local, ret, resp,
                 call, nextCall, netCalls, netDone, doneAt, seen>>

\* lines 200-203: cache.expiry[url] = time.Now().Add(5 * time.Minute);
\* cache.Unlock(); return content, nil
WriteExpiry(p) ==
  /\ pc[p] = "writeExpiry"
  /\ expiry' = [expiry EXCEPT ![url[p]] = addTTL(now)]
  /\ expiryBy' = [expiryBy EXCEPT ![url[p]] = call[p]]
  /\ storedAt' = [storedAt EXCEPT ![url[p]] = now]
  /\ writer' = None
  /\ Return(p, [content |-> local[p], err |-> ""])
  /\ UNCHANGED <<extractVars, now, content, readers, contentBy, lastLock, site, url, local, call,
                 nextCall, netCalls, netDone, doneAt, locks, wrote, seen>>

\* The handler returns; the goroutine is free to serve the next request.
Done(p) ==
  /\ pc[p] = "responded"
  /\ pc' = [pc EXCEPT ![p] = "idle"]
  /\ site' = [site EXCEPT ![p] = ""]
  /\ url' = [url EXCEPT ![p] = ""]
  /\ local' = [local EXCEPT ![p] = NilBytes]
  /\ ret' = [ret EXCEPT ![p] = NoRet]
  /\ resp' = [resp EXCEPT ![p] = NoResp]
  /\ call' = [call EXCEPT ![p] = None]
  /\ netCalls' = [netCalls EXCEPT ![p] = 0]
  /\ doneAt' = [doneAt EXCEPT ![p] = 0]
  /\ locks' = [locks EXCEPT ![p] = 0]
  /\ wrote' = [wrote EXCEPT ![p] = FALSE]
  /\ seen' = [seen EXCEPT ![p] = NoSeen]
  /\ UNCHANGED <<extractVars, now, cacheVars, lockVars, histVars, nextCall, netDone>>

\* The clock advances by d minutes.
Tick(d) ==
  /\ now + d <= MaxTime
  /\ now' = now + d
  /\ UNCHANGED <<extractVars, cacheVars, lockVars, histVars, pc, site, url, local, ret, resp, call,
                 nextCall, netCalls, netDone, doneAt, locks, wrote, seen>>

FetchErrors == {"failed to fetch the URL", "failed to read response body"}

\* The requests the clock specification serves: one more than race in Spec.
ClockCalls == MaxCalls + 1

\* Requests served concurrently; the clock is looked at once per TTL.
Next ==
  \/ \E p \in Procs, s \in SiteNames : Request(p, s, MaxCalls)
  \/ \E p \in Procs : Check(p)
  \/ \E p \in Procs : ReadHit(p)
  \/ \E p \in Procs, e \in FetchErrors : GetFail(p, e)
  \/ \E p \in Procs, c \in Bodies : GetOK(p, c)
  \/ \E p \in Procs : LockWrite(p)
  \/ \E p \in Procs : WriteExpiry(p)
  \/ \E p \in Procs : Done(p)
  \/ Tick(TTL)

Spec == Init /\ [][Next]_vars

\* Requests served one after the other; the clock is looked at every minute.
NextClock ==
  \/ \E s \in SiteNames : Request(1, s, ClockCalls)
  \/ Check(1)
  \/ ReadHit(1)
  \/ \E e \in FetchErrors : GetFail(1, e)
  \/ \E c \in Bodies : GetOK(1, c)
  \/ LockWrite(1)
  \/ WriteExpiry(1)
  \/ Done(1)
  \/ Tick(1)

SpecClock == Init /\ [][NextClock]_vars

\* =====================================================================
\* parseArticle and generateRSSFromScratch on their own: the inputs are
\* drawn in the initial state, and one action applies the extraction.
\* =====================================================================
LinkTags ==
  { <<>>, <<[href |-> "/posts/1"]>>, <<[href |-> "https://other.com/x"]>>,
    <<[href |-> "htt"]>>, <<[class |-> "more"]>> }
DateTags ==
  { <<>>, <<[datetime |-> "2024-01-01T00:02:00Z"]>>, <<[datetime |-> "yesterday"]>> }
ContentTags ==
  { <<>>, << <<>> >>, << <<TextNode("Hi "), Anchor("/about"), Image("http://i.org/x.png")>> >> }
Nodes ==
  { Article(<<"Post">>, l, d, c) : l \in LinkTags, d \in DateTags, c \in ContentTags }

RECURSIVE Pages(_)
Pages(n) ==
  IF n = 0 THEN { <<>> }
  ELSE Pages(n - 1) \cup { Append(d, a) : d \in { x \in Pages(n - 1) : Len(x) = n - 1 },
                                         a \in Nodes }

Configs ==
  { config.site1,
    SiteConfig("http://b.org/", "B", "", "") }

InitExtract ==
  /\ ServerInit
  /\ doc \in Pages(MaxArticles)
  /\ cfg \in Configs
  /\ items = <<>>
  /\ rss = ""

\* generateRSSFromScratch, lines 317-340, on the fetched page.
Extract ==
  /\ rss = ""
  /\ items' = parseAll(doc, cfg, now)
  /\ rss' = assemble(cfg, Bytes("", doc), now)
  /\ UNCHANGED <<doc, cfg, now, cacheVars, lockVars, histVars, pc, site, url, local,
                 ret, resp, call, nextCall, netCalls, netDone, doneAt, locks, wrote,
                 seen>>

NextExtract ==
  \/ Extract
  \/ rss = "" /\ Tick(TTL)

SpecExtract == InitExtract /\ [][NextExtract]_vars

\* =====================================================================
\* The properties.
\* =====================================================================
Known(p) == site[p] \in DOMAIN config
Responded(p) == pc[p] = "responded"
Succeeded(p) == Responded(p) /\ Known(p) /\ ret[p].err = ""
Failed(p) == Responded(p) /\ Known(p) /\ ret[p].err # ""

\* C1: a call that looks at the cache less than 5 minutes after the entry of its
\* URL was stored makes no network call, and returns without error the bytes
\* that were stored for that URL.
C1_FreshHit ==
  \A p \in Procs :
    seen[p].age = "fresh" =>
      /\ netCalls[p] = 0
      /\ pc[p] \in {"read", "responded"}
      /\ Responded(p) =>
           /\ ret[p] = [content |-> seen[p].bytes, err |-> ""]
           /\ seen[p].bytes \in Upstream(url[p])
           /\ resp[p].status = StatusOK

\* C1 witness: a request answered from an entry stored some minutes before,
\* with the bytes of that entry.
C1_Witness ==
  \E p \in Procs :
    /\ Responded(p) /\ seen[p].age = "fresh"
    /\ netCalls[p] = 0
    /\ now > storedAt[url[p]]
    /\ ret[p].content = content[url[p]]
    /\ ret[p].content = PageB

\* C2: a call that looks at the cache 5 minutes or more after the entry of its
\* URL was stored (exactly 5 minutes included) makes exactly one network call;
\* when that call succeeds, the entry becomes the new bytes, expiring 5 minutes
\* after the instant of the store.
C2_ExpiredRefetch ==
  \A p \in Procs :
    seen[p].age \in {"due", "expired"} =>
      /\ netCalls[p] = 1
      /\ pc[p] \in {"Get", "Lock", "writeExpiry", "responded"}
      /\ Succeeded(p) =>
           /\ wrote[p]
           /\ content[url[p]] = ret[p].content
           /\ contentBy[url[p]] = call[p] /\ expiryBy[url[p]] = call[p]
           /\ storedAt[url[p]] <= now
           /\ expiry[url[p]] = storedAt[url[p]] + TTL

\* C2 witness: a call made exactly 5 minutes after the store has fetched again
\* and replaced the entry by other bytes.
C2_Witness ==
  \E p \in Procs :
    /\ Succeeded(p) /\ seen[p].age = "due"
    /\ netCalls[p] = 1
    /\ content[url[p]] = FeedB
    /\ expiry[url[p]] > TTL + TTL

\* An entry is complete: both maps hold what one and the same call wrote, or
\* neither holds anything.
Complete(u) ==
  /\ contentBy[u] = expiryBy[u]
  /\ (content[u] = NilBytes) = (expiry[u] = ZeroTime)
  /\ (contentBy[u] = None) = (expiry[u] = ZeroTime)

\* C3: whatever the interleaving of the calls, a call that reads the cache reads
\* an expiry and a content written by the same call, every entry is complete
\* whenever a reader holds the lock or nobody writes, and so once all calls end.
C3_NoTornEntry ==
  /\ \A p \in Procs : seen[p].content # None => seen[p].content = seen[p].expiry
  /\ (readers # {} \/ writer = None) => \A u \in Keys : Complete(u)
  /\ writer # None => readers = {} /\ pc[writer] = "writeExpiry"

\* C3 witness: two calls for one URL both found no entry, both stored, and
\* the entry left is complete.
C3_Witness ==
  \E p, q \in Procs :
    /\ p # q /\ url[p] = url[q]
    /\ Succeeded(p) /\ Succeeded(q)
    /\ seen[p].age = "absent" /\ seen[q].age = "absent"
    /\ wrote[p] /\ wrote[q]
    /\ ret[p].content # ret[q].content
    /\ Complete(url[p]) /\ contentBy[url[p]] = call[q]

C5_Passthrough ==
  \A p \in Procs :
    (Succeeded(p) /\ config[site[p]].ExistingRSSURL # "") =>
      /\ url[p] = config[site[p]].ExistingRSSURL
      /\ resp[p] = [status |-> StatusOK, body |-> ret[p].content.raw]
      /\ ret[p].content = IF netCalls[p] = 0 THEN seen[p].bytes ELSE local[p]
      /\ ret[p].content \in Upstream(url[p])

\* C5 witness: the feed of site2 served from the cache, unescaped as upstream
\* sent it.
C5_Witness ==
  \E p \in Procs :
    /\ Succeeded(p) /\ site[p] = "site2"
    /\ netCalls[p] = 0
    /\ resp[p].body = "<rss>B &amp; \"b\"</rss>"

\* The step of a call whose fetch fails.
FailStep(p) == pc[p] = "Get" /\ pc'[p] = "responded" /\ ret'[p].err # ""

\* C6: the step at which a fetch fails changes no entry of the cache, and the
\* failed call has stored nothing: it made one network call, took only the read
\* lock, and is answered with an error; the entry of its URL is still the one
\* it found, so the next call that finds it absent or expired fetches again.
C6_FailureKeepsCache ==
  /\ [](\A p \in Procs :
          /\ Failed(p) =>
               /\ ~wrote[p] /\ netCalls[p] = 1 /\ locks[p] = 1
               /\ ret[p].content = NilBytes
               /\ resp[p].status = StatusInternalServerError
               /\ seen[p].age # "fresh"
               /\ contentBy[url[p]] # call[p] /\ expiryBy[url[p]] # call[p]
          /\ seen[p].age \in {"absent", "due", "expired"} => netCalls[p] = 1)
  /\ [][\A p \in Procs : FailStep(p) => UNCHANGED <<content, expiry>>]_vars

\* C6 witness: a fetch failed after the entry of its URL had expired, and the
\* expired entry is still in the cache.
C6_Witness ==
  \E p \in Procs :
    /\ Failed(p) /\ seen[p].age \in {"due", "expired"}
    /\ content[url[p]] # NilBytes
    /\ expiry[url[p]] = storedAt[url[p]] + TTL /\ expiry[url[p]] <= now

\* C10: the cache holds, for every URL, the bytes fetched by the call that took
\* the write lock last; calls that find no fresh entry fetch, whatever other
\* fetches of the URL are under way.
C10_LastWriterWins ==
  /\ \A u \in Keys : content[u] = lastLock[u]
  /\ \A p \in Procs : seen[p].age \in {"absent", "due", "expired"} => netCalls[p] = 1

\* C10 witness: two calls found no entry and both fetched; the bytes left are
\* those of the call that started later and whose fetch ended later.
C10_Witness ==
  \E p, q \in Procs :
    /\ p # q /\ url[p] = url[q]
    /\ Succeeded(p) /\ Succeeded(q)
    /\ seen[p].age = "absent" /\ seen[q].age = "absent"
    /\ netCalls[p] = 1 /\ netCalls[q] = 1
    /\ ret[p].content # ret[q].content
    /\ content[url[p]] = ret[q].content
    /\ call[p] < call[q] /\ doneAt[p] < doneAt[q]

\* The value of the link attribute of article i of the page, "" when there is
\* no link node or the node has no such attribute.
LinkValue(i) ==
  IF doc[i].link = <<>> THEN ""
  ELSE IF cfg.LinkAttributeName \in DOMAIN doc[i].link[1]
       THEN doc[i].link[1][cfg.LinkAttributeName] ELSE ""

\* The datetime attribute of article i of the page, "" when absent.
DateValue(i) ==
  IF doc[i].date = <<>> THEN ""
  ELSE IF "datetime" \in DOMAIN doc[i].date[1] THEN doc[i].date[1]["datetime"] ELSE ""

StartsWithHttp(v) == Len(v) >= 4 /\ SubSeq(v, 1, 4) = "http"

Extracted == rss # ""

\* C7: the link of every entry, and its identifier, is the link attribute value
\* itself when the value starts with "http", and the site URL directly followed
\* by the value otherwise.
C7_LinkAbsolutization ==
  Extracted =>
    /\ Len(items) = Len(doc)
    /\ \A i \in 1 .. Len(doc) :
         /\ items[i].Id = items[i].Link
         /\ StartsWithHttp(LinkValue(i)) => items[i].Link = LinkValue(i)
         /\ ~StartsWithHttp(LinkValue(i)) => items[i].Link = cfg.URL \o LinkValue(i)
         /\ (cfg.URL = "https://example.com" /\ LinkValue(i) = "/posts/1")
              => items[i].Link = "https://example.com/posts/1"
         /\ LinkValue(i) = "https://other.com/x" => items[i].Link = "https://other.com/x"

\* C7 witness: a page with a relative and an absolute link, extracted.
C7_Witness ==
  /\ Extracted /\ Len(items) = 2
  /\ items[1].Link = "https://example.com/posts/1"
  /\ items[2].Link = "https://other.com/x"
  /\ items[2].Id = "https://other.com/x"

\* C8 as claimed: an article without content node yields an entry whose
\* description is "No description available".
C8_Claimed ==
  Extracted =>
    /\ Len(items) = Len(doc)
    /\ \A i \in 1 .. Len(doc) :
         doc[i].content = <<>> => items[i].Description = "No description available"

\* C8: every article node yields one entry, in order; an article without content
\* node yields an entry whose description is "No description available" between
\* the two HTML marker comments.
C8_MissingContent ==
  Extracted =>
    /\ Len(items) = Len(doc)
    /\ \A i \in 1 .. Len(doc) :
         /\ items[i].Title = "Post"
         /\ doc[i].content = <<>> =>
              items[i].Description =
                "<!-- HTML content start -->\nNo description available\n<!-- HTML content end -->"

\* C8 witness: a page of two articles, the second without content node.
C8_Witness ==
  /\ Extracted /\ Len(doc) = 2 /\ Len(items) = 2
  /\ doc[1].content # <<>> /\ doc[2].content = <<>>
  /\ items[1].Description # items[2].Description

\* C9: an article whose date string (the empty string of a missing date
\* included) does not parse under the configured format yields an entry all the
\* same, created at the instant of the extraction.
C9_MalformedDate ==
  Extracted =>
    /\ Len(items) = Len(doc)
    /\ \A i \in 1 .. Len(doc) :
         TimeParse(cfg.DateFormat, DateValue(i)).err => items[i].Created = now

\* C9 witness: an unparsable date and a missing date, both stamped with the
\* instant of the extraction.
C9_Witness ==
  /\ Extracted /\ Len(doc) = 2 /\ now = TTL
  /\ cfg.DateFormat = "RFC3339"
  /\ DateValue(1) = "yesterday" /\ DateValue(2) = ""
  /\ items[1].Created = now /\ items[2].Created = now
====
